---- MODULE Spec2Model ----
(***************************************************************************)
(* Model of src/views/admin/InstitutionsManagement.tsx: the admin screen   *)
(* that lists, searches, sorts, creates, edits and deletes institution     *)
(* records kept in a remote document store.                                *)
(*                                                                         *)
(* Strings are sequences of one-character strings, so that trim,           *)
(* toUpperCase, toLowerCase, includes and localeCompare are computed.      *)
(***************************************************************************)
EXTENDS Integers, Sequences, FiniteSets, TLC

VARIABLES
    institutions,           \* useState<FacultyCodeWithId[]>          (line 31)
    filteredInstitutions,   \* the rendered list                      (line 32)
    isLoading,              \* line 35
    sortOption,             \* line 36
    searchTerm,             \* line 37
    showAddModal,           \* line 40
    showEditModal,          \* line 41
    showDeleteModal,        \* line 42
    selectedInstitution,    \* <<>> is null, <<r>> is the record r    (line 43)
    formData,               \* [institution, facultyCode]             (line 47)
    isSaving,               \* line 51
    isDeleting,             \* line 52
    formError,              \* line 53
    store,                  \* the remote collection "facultyCodes"
    nextId,                 \* the next id the store assigns
    writes,                 \* add, update and delete calls issued so far
    getAllReq,              \* the getAll call of fetchInstitutions
    saveReq,                \* <<>> or the add/update call in flight
    deleteReq,              \* <<>> or the delete call in flight
    alertOpen,              \* the blocking alert() of line 294 is showing
    gen,                    \* <<>> or <<newCode>> inside handleGenerateNewCode's loop
    last,                   \* history: the save handler or continuation, or
                            \* handleGenerateNewCode, that ran last; "event"
                            \* after any other handler or continuation
    deletedIds,             \* history: ids whose delete has resolved
    pure                    \* inputs and result of a pure-function application

vars == <<institutions, filteredInstitutions, isLoading, sortOption, searchTerm,
          showAddModal, showEditModal, showDeleteModal, selectedInstitution,
          formData, isSaving, isDeleting, formError, store, nextId, writes,
          getAllReq, saveReq, deleteReq, alertOpen, gen, last, deletedIds, pure>>

(***************************************************************************)
(* Bounds                                                                  *)
(***************************************************************************)
MaxWrites == 2      \* add, update and delete calls issued in one run
MaxLen == 3         \* longest list handed to filterInstitutions / sortInstitutions

CodeLength == 6     \* formData.facultyCode.length !== 6

(***************************************************************************)
(* Strings                                                                 *)
(***************************************************************************)
Missing == <<"undefined">>      \* a field the stored document does not have

Str1(a) == <<a>>
Str2(a, b) == <<a, b>>
Rep6(a) == <<a, a, a, a, a, a>>

toUpperCaseChar(ch) ==
    CASE ch = "a" -> "A" [] ch = "b" -> "B" [] ch = "c" -> "C" [] OTHER -> ch

toLowerCaseChar(ch) ==
    CASE ch = "A" -> "a" [] ch = "B" -> "b" [] ch = "C" -> "c" [] OTHER -> ch

toUpperCase(s) == [i \in 1..Len(s) |-> toUpperCaseChar(s[i])]

toLowerCase(s) == [i \in 1..Len(s) |-> toLowerCaseChar(s[i])]

IsSpace(ch) == ch = " "

RECURSIVE trimStart(_)
trimStart(s) ==
    IF s # <<>> /\ IsSpace(Head(s)) THEN trimStart(Tail(s)) ELSE s

RECURSIVE trimEnd(_)
trimEnd(s) ==
    IF s # <<>> /\ IsSpace(s[Len(s)]) THEN trimEnd(SubSeq(s, 1, Len(s) - 1)) ELSE s

trim(s) == trimEnd(trimStart(s))

\* String.prototype.includes
includes(s, t) ==
    \E i \in 0..(Len(s) - Len(t)) : SubSeq(s, i + 1, i + Len(t)) = t

\* (x || ""): undefined and "" are both falsy
orEmpty(s) == IF s = Missing THEN <<>> ELSE s

(***************************************************************************)
(* localeCompare: a primary comparison letter by letter, case ignored,     *)
(* white space before letters; then, between strings equal at the primary  *)
(* level, lower case before upper case at the first difference.            *)
(***************************************************************************)
primaryWeight(ch) ==
    CASE IsSpace(ch) -> 0
      [] toLowerCaseChar(ch) = "a" -> 1
      [] toLowerCaseChar(ch) = "b" -> 2
      [] OTHER -> 3

tertiaryWeight(ch) == IF toUpperCaseChar(ch) = ch /\ toLowerCaseChar(ch) # ch THEN 1 ELSE 0

RECURSIVE compareWeights(_, _, _)
compareWeights(a, b, i) ==
    IF i > Len(a) /\ i > Len(b) THEN 0
    ELSE IF i > Len(a) THEN -1
    ELSE IF i > Len(b) THEN 1
    ELSE IF a[i] < b[i] THEN -1
    ELSE IF a[i] > b[i] THEN 1
    ELSE compareWeights(a, b, i + 1)

localeCompare(a, b) ==
    LET p == compareWeights([i \in 1..Len(a) |-> primaryWeight(a[i])],
                            [i \in 1..Len(b) |-> primaryWeight(b[i])], 1)
    IN  IF p # 0 THEN p
        ELSE compareWeights([i \in 1..Len(a) |-> tertiaryWeight(a[i])],
                            [i \in 1..Len(b) |-> tertiaryWeight(b[i])], 1)

(***************************************************************************)
(* Sort and filter                                                         *)
(***************************************************************************)
SortOptions == {"alphabetical", "reverse-alphabetical", "code-asc", "code-desc"}

\* mutant: "code-desc" compares as "code-asc" does
comparatorCodeDescAscending(option, a, b) ==
    CASE option \in {"alphabetical"} ->
            localeCompare(orEmpty(a.institution), orEmpty(b.institution))
      [] option = "reverse-alphabetical" ->
            localeCompare(orEmpty(b.institution), orEmpty(a.institution))
      [] option \in {"code-asc", "code-desc"} ->
            localeCompare(orEmpty(a.facultyCode), orEmpty(b.facultyCode))
      [] OTHER -> 0

\* the comparator handed to Array.prototype.sort for each option
comparator(option, a, b) ==
    CASE option = "alphabetical" ->
            localeCompare(orEmpty(a.institution), orEmpty(b.institution))
      [] option = "reverse-alphabetical" ->
            localeCompare(orEmpty(b.institution), orEmpty(a.institution))
      [] option = "code-asc" ->
            localeCompare(orEmpty(a.facultyCode), orEmpty(b.facultyCode))
      [] option = "code-desc" ->
            localeCompare(orEmpty(b.facultyCode), orEmpty(a.facultyCode))
      [] OTHER -> 0

\* Array.prototype.sort is stable: an element goes after every element that
\* does not compare greater than it.
RECURSIVE insertSorted(_, _, _)
insertSorted(sorted, x, option) ==
    IF sorted = <<>> THEN <<x>>
    ELSE IF comparator(option, Head(sorted), x) <= 0
         THEN <<Head(sorted)>> \o insertSorted(Tail(sorted), x, option)
         ELSE <<x>> \o sorted

RECURSIVE arraySort(_, _)
arraySort(list, option) ==
    IF list = <<>> THEN <<>>
    ELSE insertSorted(arraySort(SubSeq(list, 1, Len(list) - 1), option),
                      list[Len(list)], option)

sortInstitutions(institutionsList, option) == arraySort(institutionsList, option)

\* inst.field?.toLowerCase().includes(searchLower)
fieldIncludes(field, searchLower) ==
    field # Missing /\ includes(toLowerCase(field), searchLower)

\* mutant: the search term is not lower-cased
filterInstitutionsRawTerm(institutionsList, search) ==
    IF trim(search) = <<>> THEN institutionsList
    ELSE LET keep(inst) == \/ fieldIncludes(inst.institution, search)
                           \/ fieldIncludes(inst.facultyCode, search)
         IN  SelectSeq(institutionsList, keep)

filterInstitutions(institutionsList, search) ==
    IF trim(search) = <<>> THEN institutionsList
    ELSE LET searchLower == toLowerCase(search)
             keep(inst) == \/ fieldIncludes(inst.institution, searchLower)
                           \/ fieldIncludes(inst.facultyCode, searchLower)
         IN  SelectSeq(institutionsList, keep)

\* the effect of lines 118-122, run after every render that changed its inputs
rendered(list, search, option) ==
    sortInstitutions(filterInstitutions(list, search), option)

(***************************************************************************)
(* Records, inputs and the external collaborators                          *)
(***************************************************************************)
Record(id, name, code) == [id |-> id, institution |-> name, facultyCode |-> code]

\* documents the collection may hold when the component mounts
SeedRecords == << Record(1, Str1("B"), Rep6("A")) >>

InitialStores == { SeedRecords }

\* what the administrator may type into the name field, the code field
\* (maxLength 6) and the search box
NameInputs == { Str1(" "), Str2(" ", "a") }
CodeInputs == { Rep6("a"), Str2("a", "b"), Rep6(" ") }
SearchInputs == { <<>>, Str1("b") }
\* the sort button pressed while the component runs; the option decides only
\* the order of filteredInstitutions, and SpecPure sorts under all four
SortInputs == { "alphabetical" }

\* generateFacultyCode(): some 6-character code
GenCodes == { Rep6("A"), Rep6("C") }

EmptyForm == [institution |-> <<>>, facultyCode |-> <<>>]

\* the messages of setFormError, written without their accents
ErrName == "El nombre de la institucion es requerido"
ErrCode == "El codigo debe tener exactamente 6 caracteres"
ErrDup == "Este codigo ya esta en uso"
ErrAdd == "Error al crear la institucion. Por favor intenta de nuevo."
ErrEdit == "Error al actualizar la institucion. Por favor intenta de nuevo."

\* the state of the pure-function harness while the component runs
PureIdle == [phase |-> "idle", list |-> <<>>, orig |-> <<>>, term |-> <<>>,
             option |-> "alphabetical", out |-> <<>>]

(***************************************************************************)
(* What is on screen                                                       *)
(***************************************************************************)
AddModalVisible == showAddModal
EditModalVisible == showEditModal /\ selectedInstitution # <<>>
DeleteModalVisible == showDeleteModal /\ selectedInstitution # <<>>

\* the overlay that receives the pointer: delete is z-60, add and edit z-50
TopModal ==
    IF DeleteModalVisible THEN "delete"
    ELSE IF EditModalVisible THEN "edit"
    ELSE IF AddModalVisible THEN "add"
    ELSE "none"

\* the single JavaScript thread is free to run a handler or a continuation
Idle == gen = <<>> /\ ~alertOpen

Render == filteredInstitutions' = rendered(institutions', searchTerm', sortOption')

(***************************************************************************)
(* Init: the component has mounted and its effect has called               *)
(* fetchInstitutions, whose getAll is in flight.                           *)
(***************************************************************************)
InitComponent ==
    /\ institutions = <<>>
    /\ filteredInstitutions = <<>>
    /\ isLoading = TRUE
    /\ sortOption = "alphabetical"
    /\ searchTerm = <<>>
    /\ showAddModal = FALSE
    /\ showEditModal = FALSE
    /\ showDeleteModal = FALSE
    /\ selectedInstitution = <<>>
    /\ formData = EmptyForm
    /\ isSaving = FALSE
    /\ isDeleting = FALSE
    /\ formError = ""
    /\ store \in InitialStores
    /\ nextId = 1
    /\ writes = 0
    /\ getAllReq = [status |-> "sent", data |-> <<>>]
    /\ saveReq = <<>>
    /\ deleteReq = <<>>
    /\ alertOpen = FALSE
    /\ gen = <<>>
    /\ last = "mount"
    /\ deletedIds = {}

Init == InitComponent /\ pure = PureIdle

(***************************************************************************)
(* The document store                                                      *)
(***************************************************************************)
\* getAll is served: the snapshot is taken, or the call fails
StoreGetAll(ok) ==
    /\ getAllReq.status = "sent"
    /\ getAllReq' = IF ok THEN [status |-> "ok", data |-> store]
                         ELSE [status |-> "failed", data |-> <<>>]
    /\ UNCHANGED <<institutions, filteredInstitutions, isLoading, sortOption,
                   searchTerm, showAddModal, showEditModal, showDeleteModal,
                   selectedInstitution, formData, isSaving, isDeleting, formError,
                   store, nextId, saveReq, deleteReq, alertOpen, gen, last, pure, writes, deletedIds>>

\* add is served: the store assigns the id
StoreAdd(ok) ==
    /\ saveReq # <<>>
    /\ saveReq[1].kind = "add"
    /\ saveReq[1].status = "sent"
    /\ IF ok
       THEN LET docId == Len(SeedRecords) + nextId
            IN  /\ store' = Append(store, Record(docId, saveReq[1].data.institution,
                                                 saveReq[1].data.facultyCode))
                /\ nextId' = nextId + 1
                /\ saveReq' = <<[saveReq[1] EXCEPT !.status = "ok", !.target = <<docId>>]>>
       ELSE /\ saveReq' = <<[saveReq[1] EXCEPT !.status = "failed"]>>
            /\ UNCHANGED <<store, nextId>>
    /\ UNCHANGED <<institutions, filteredInstitutions, isLoading, sortOption,
                   searchTerm, showAddModal, showEditModal, showDeleteModal,
                   selectedInstitution, formData, isSaving, isDeleting, formError,
                   getAllReq, deleteReq, alertOpen, gen, last, pure, writes, deletedIds>>

(***************************************************************************)
(* The component                                                           *)
(***************************************************************************)
\* mutant: the id test inverted, so that no record ever counts as a clash
isCodeUniqueWrongId(code, excludeId) ==
    ~ \E i \in 1..Len(institutions) :
          /\ institutions[i].facultyCode = code
          /\ <<institutions[i].id>> = excludeId

\* mutant: codes are compared by their length
isCodeUniqueByLength(code, excludeId) ==
    ~ \E i \in 1..Len(institutions) :
          /\ Len(institutions[i].facultyCode) = Len(code)
          /\ <<institutions[i].id>> # excludeId

isCodeUnique(code, excludeId) ==
    ~ \E i \in 1..Len(institutions) :
          /\ institutions[i].facultyCode = code
          /\ <<institutions[i].id>> # excludeId

\* mutant: a failed fetch is issued again
fetchInstitutionsDoneRetries ==
    /\ Idle
    /\ getAllReq.status \in {"ok", "failed"}
    /\ institutions' = IF getAllReq.status = "ok" THEN getAllReq.data ELSE <<>>
    /\ isLoading' = FALSE
    /\ getAllReq' = IF getAllReq.status = "ok" THEN [status |-> "done", data |-> <<>>]
                    ELSE [status |-> "sent", data |-> <<>>]
    /\ last' = "event"
    /\ UNCHANGED <<sortOption, searchTerm, showAddModal, showEditModal,
                   showDeleteModal, selectedInstitution, formData, isSaving,
                   isDeleting, formError, store, nextId, saveReq, deleteReq,
                   alertOpen, gen, pure, writes, deletedIds>>
    /\ Render

\* fetchInstitutions after its await: lines 62-69
fetchInstitutionsDone ==
    /\ Idle
    /\ getAllReq.status \in {"ok", "failed"}
    /\ institutions' = IF getAllReq.status = "ok" THEN getAllReq.data ELSE <<>>
    /\ isLoading' = FALSE
    /\ getAllReq' = [status |-> "done", data |-> <<>>]
    /\ last' = "event"
    /\ UNCHANGED <<sortOption, searchTerm, showAddModal, showEditModal,
                   showDeleteModal, selectedInstitution, formData, isSaving,
                   isDeleting, formError, store, nextId, saveReq, deleteReq,
                   alertOpen, gen, pure, writes, deletedIds>>
    /\ Render

\* the search box, line 349
setSearchTerm(v) ==
    /\ Idle
    /\ TopModal = "none"
    /\ searchTerm' = v
    /\ last' = "event"
    /\ UNCHANGED <<institutions, isLoading, sortOption, showAddModal, showEditModal,
                   showDeleteModal, selectedInstitution, formData, isSaving,
                   isDeleting, formError, store, nextId, getAllReq, saveReq,
                   deleteReq, alertOpen, gen, pure, writes, deletedIds>>
    /\ Render

\* the sort buttons, shown when the list is loaded and not empty (line 381)
handleSortChange(option) ==
    /\ Idle
    /\ TopModal = "none"
    /\ ~isLoading
    /\ Len(institutions) > 0
    /\ sortOption' = option
    /\ last' = "event"
    /\ UNCHANGED <<institutions, isLoading, searchTerm, showAddModal, showEditModal,
                   showDeleteModal, selectedInstitution, formData, isSaving,
                   isDeleting, formError, store, nextId, getAllReq, saveReq,
                   deleteReq, alertOpen, gen, pure, writes, deletedIds>>
    /\ Render

openAddModal ==
    /\ Idle
    /\ TopModal = "none"
    /\ \E newCode \in GenCodes :
           formData' = [institution |-> <<>>, facultyCode |-> newCode]
    /\ formError' = ""
    /\ showAddModal' = TRUE
    /\ last' = "event"
    /\ UNCHANGED <<institutions, isLoading, sortOption, searchTerm, showEditModal,
                   showDeleteModal, selectedInstitution, isSaving, isDeleting,
                   store, nextId, getAllReq, saveReq, deleteReq, alertOpen, gen, pure, writes, deletedIds>>
    /\ Render

\* the rows of the table are rendered when the list is loaded (line 408)
openEditModal(institution) ==
    /\ Idle
    /\ TopModal = "none"
    /\ ~isLoading
    /\ selectedInstitution' = <<institution>>
    /\ formData' = [institution |-> institution.institution,
                    facultyCode |-> institution.facultyCode]
    /\ formError' = ""
    /\ showEditModal' = TRUE
    /\ last' = "event"
    /\ UNCHANGED <<institutions, isLoading, sortOption, searchTerm, showAddModal,
                   showDeleteModal, isSaving, isDeleting, store, nextId, getAllReq,
                   saveReq, deleteReq, alertOpen, gen, pure, writes, deletedIds>>
    /\ Render

openDeleteModal(institution) ==
    /\ Idle
    /\ TopModal = "none"
    /\ ~isLoading
    /\ selectedInstitution' = <<institution>>
    /\ showDeleteModal' = TRUE
    /\ last' = "event"
    /\ UNCHANGED <<institutions, isLoading, sortOption, searchTerm, showAddModal,
                   showEditModal, formData, isSaving, isDeleting, formError, store,
                   nextId, getAllReq, saveReq, deleteReq, alertOpen, gen, pure, writes, deletedIds>>
    /\ Render

\* backdrop and close button of the add modal (lines 494, 506); Cancelar too
closeAddModal ==
    /\ Idle
    /\ TopModal = "add"
    /\ showAddModal' = FALSE
    /\ last' = "event"
    /\ UNCHANGED <<institutions, isLoading, sortOption, searchTerm, showEditModal,
                   showDeleteModal, selectedInstitution, formData, isSaving,
                   isDeleting, formError, store, nextId, getAllReq, saveReq,
                   deleteReq, alertOpen, gen, pure, writes, deletedIds>>
    /\ Render

\* backdrop and close button of the edit modal (lines 590, 602)
closeEditModal ==
    /\ Idle
    /\ TopModal = "edit"
    /\ showEditModal' = FALSE
    /\ last' = "event"
    /\ UNCHANGED <<institutions, isLoading, sortOption, searchTerm, showAddModal,
                   showDeleteModal, selectedInstitution, formData, isSaving,
                   isDeleting, formError, store, nextId, getAllReq, saveReq,
                   deleteReq, alertOpen, gen, pure, writes, deletedIds>>
    /\ Render

\* backdrop of the delete modal (line 679)
closeDeleteModal ==
    /\ Idle
    /\ TopModal = "delete"
    /\ showDeleteModal' = FALSE
    /\ last' = "event"
    /\ UNCHANGED <<institutions, isLoading, sortOption, searchTerm, showAddModal,
                   showEditModal, selectedInstitution, formData, isSaving,
                   isDeleting, formError, store, nextId, getAllReq, saveReq,
                   deleteReq, alertOpen, gen, pure, writes, deletedIds>>
    /\ Render

\* the name field of the add and edit modals (lines 527, 623)
setFormInstitution(v) ==
    /\ Idle
    /\ TopModal \in {"add", "edit"}
    /\ formData' = [formData EXCEPT !.institution = v]
    /\ last' = "event"
    /\ UNCHANGED <<institutions, isLoading, sortOption, searchTerm, showAddModal,
                   showEditModal, showDeleteModal, selectedInstitution, isSaving,
                   isDeleting, formError, store, nextId, getAllReq, saveReq,
                   deleteReq, alertOpen, gen, pure, writes, deletedIds>>
    /\ Render

\* the code field of the add and edit modals (lines 543, 638)
setFormFacultyCode(v) ==
    /\ Idle
    /\ TopModal \in {"add", "edit"}
    /\ Len(v) <= CodeLength
    /\ formData' = [formData EXCEPT !.facultyCode = toUpperCase(v)]
    /\ last' = "event"
    /\ UNCHANGED <<institutions, isLoading, sortOption, searchTerm, showAddModal,
                   showEditModal, showDeleteModal, selectedInstitution, isSaving,
                   isDeleting, formError, store, nextId, getAllReq, saveReq,
                   deleteReq, alertOpen, gen, pure, writes, deletedIds>>
    /\ Render

(***************************************************************************)
(* handleGenerateNewCode (lines 144-151): a synchronous loop; no other     *)
(* handler or continuation runs until it returns.                          *)
(***************************************************************************)
\* let newCode = generateFacultyCode()
generateStart ==
    /\ Idle
    /\ TopModal = "add"
    /\ \E newCode \in GenCodes : gen' = <<newCode>>
    /\ last' = "event"
    /\ UNCHANGED <<institutions, isLoading, sortOption, searchTerm, showAddModal,
                   showEditModal, showDeleteModal, selectedInstitution, formData,
                   isSaving, isDeleting, formError, store, nextId, getAllReq,
                   saveReq, deleteReq, alertOpen, pure, writes, deletedIds>>
    /\ Render

\* while (!isCodeUnique(newCode)) newCode = generateFacultyCode()
generateRetry ==
    /\ gen # <<>>
    /\ ~isCodeUnique(gen[1], <<>>)
    /\ \E newCode \in GenCodes : gen' = <<newCode>>
    /\ last' = "event"
    /\ UNCHANGED <<institutions, isLoading, sortOption, searchTerm, showAddModal,
                   showEditModal, showDeleteModal, selectedInstitution, formData,
                   isSaving, isDeleting, formError, store, nextId, getAllReq,
                   saveReq, deleteReq, alertOpen, pure, writes, deletedIds>>
    /\ Render

\* the loop is left: setFormData({ ...formData, facultyCode: newCode })
handleGenerateNewCode ==
    /\ gen # <<>>
    /\ isCodeUnique(gen[1], <<>>)
    /\ formData' = [formData EXCEPT !.facultyCode = gen[1]]
    /\ gen' = <<>>
    /\ last' = "handleGenerateNewCode"
    /\ UNCHANGED <<institutions, isLoading, sortOption, searchTerm, showAddModal,
                   showEditModal, showDeleteModal, selectedInstitution, isSaving,
                   isDeleting, formError, store, nextId, getAllReq, saveReq,
                   deleteReq, alertOpen, pure, writes, deletedIds>>
    /\ Render

(***************************************************************************)
(* Add                                                                     *)
(***************************************************************************)
\* mutant: the uniqueness check is missing
validateWithoutUnique(form, excludeId) ==
    IF trim(form.institution) = <<>> THEN ErrName
    ELSE IF trim(form.facultyCode) = <<>> \/ Len(form.facultyCode) # CodeLength
         THEN ErrCode
    ELSE ""

\* mutant: the length check is missing
validateWithoutLength(form, excludeId) ==
    IF trim(form.institution) = <<>> THEN ErrName
    ELSE IF trim(form.facultyCode) = <<>> THEN ErrCode
    ELSE IF ~isCodeUnique(form.facultyCode, excludeId) THEN ErrDup
    ELSE ""

\* the message of the validation of lines 155-168 / 212-225, "" when it passes
validate(form, excludeId) ==
    IF trim(form.institution) = <<>> THEN ErrName
    ELSE IF trim(form.facultyCode) = <<>> \/ Len(form.facultyCode) # CodeLength
         THEN ErrCode
    ELSE IF ~isCodeUnique(form.facultyCode, excludeId) THEN ErrDup
    ELSE ""

\* { institution: formData.institution.trim(),
\*   facultyCode: formData.facultyCode.toUpperCase() }
payload(form) ==
    [institution |-> trim(form.institution),
     facultyCode |-> toUpperCase(form.facultyCode)]

\* the Agregar button up to its await (lines 154-178)
handleAddInstitution ==
    /\ Idle
    /\ TopModal = "add"
    /\ ~isSaving
    /\ LET error == validate(formData, <<>>)
       IN  IF error # ""
           THEN /\ formError' = error
                /\ UNCHANGED <<isSaving, saveReq, writes>>
           ELSE /\ writes < MaxWrites
                /\ writes' = writes + 1
                /\ isSaving' = TRUE
                /\ formError' = ""
                /\ saveReq' = <<[kind |-> "add", target |-> <<>>,
                                 data |-> payload(formData), status |-> "sent"]>>
    /\ last' = "handleAddInstitution"
    /\ UNCHANGED <<institutions, isLoading, sortOption, searchTerm, showAddModal,
                   showEditModal, showDeleteModal, selectedInstitution, formData,
                   isDeleting, store, nextId, getAllReq, deleteReq, alertOpen,
                   gen, pure, deletedIds>>
    /\ Render

\* lines 179-186 and 193: the add resolved with docId
addResolved ==
    /\ Idle
    /\ saveReq # <<>>
    /\ saveReq[1].kind = "add"
    /\ saveReq[1].status = "ok"
    /\ institutions' = Append(institutions,
                              Record(saveReq[1].target[1], saveReq[1].data.institution,
                                     saveReq[1].data.facultyCode))
    /\ showAddModal' = FALSE
    /\ formData' = EmptyForm
    /\ isSaving' = FALSE
    /\ saveReq' = <<>>
    /\ last' = "addResolved"
    /\ UNCHANGED <<isLoading, sortOption, searchTerm, showEditModal, showDeleteModal,
                   selectedInstitution, isDeleting, formError, store, nextId,
                   getAllReq, deleteReq, alertOpen, gen, pure, writes, deletedIds>>
    /\ Render

\* mutant: the finally block of line 193 is missing
addRejectedKeepsSaving ==
    /\ Idle
    /\ saveReq # <<>>
    /\ saveReq[1].kind = "add"
    /\ saveReq[1].status = "failed"
    /\ formError' = ErrAdd
    /\ saveReq' = <<>>
    /\ last' = "addRejected"
    /\ UNCHANGED <<institutions, isLoading, sortOption, searchTerm, showAddModal,
                   showEditModal, showDeleteModal, selectedInstitution, formData,
                   isSaving, isDeleting, store, nextId, getAllReq, deleteReq,
                   alertOpen, gen, pure, writes, deletedIds>>
    /\ Render

\* lines 187-193: the add rejected
addRejected ==
    /\ Idle
    /\ saveReq # <<>>
    /\ saveReq[1].kind = "add"
    /\ saveReq[1].status = "failed"
    /\ formError' = ErrAdd
    /\ isSaving' = FALSE
    /\ saveReq' = <<>>
    /\ last' = "addRejected"
    /\ UNCHANGED <<institutions, isLoading, sortOption, searchTerm, showAddModal,
                   showEditModal, showDeleteModal, selectedInstitution, formData,
                   isDeleting, store, nextId, getAllReq, deleteReq, alertOpen,
                   gen, pure, writes, deletedIds>>
    /\ Render

(***************************************************************************)
(* Edit                                                                    *)
(***************************************************************************)
\* the Guardar Cambios button up to its await (lines 209-239); the modal is
\* rendered only with a selection, so line 210 does not return
handleEditInstitution ==
    /\ Idle
    /\ TopModal = "edit"
    /\ ~isSaving
    /\ LET error == validate(formData, <<selectedInstitution[1].id>>)
       IN  IF error # ""
           THEN /\ formError' = error
                /\ UNCHANGED <<isSaving, saveReq, writes>>
           ELSE /\ writes < MaxWrites
                /\ writes' = writes + 1
                /\ isSaving' = TRUE
                /\ formError' = ""
                /\ saveReq' = <<[kind |-> "update",
                                 target |-> <<selectedInstitution[1].id>>,
                                 data |-> payload(formData), status |-> "sent"]>>
    /\ last' = "handleEditInstitution"
    /\ UNCHANGED <<institutions, isLoading, sortOption, searchTerm, showAddModal,
                   showEditModal, showDeleteModal, selectedInstitution, formData,
                   isDeleting, store, nextId, getAllReq, deleteReq, alertOpen,
                   gen, pure, deletedIds>>
    /\ Render

\* what update(id, data) leaves in a collection
updated(collection, target, data) ==
    [i \in 1..Len(collection) |->
        IF <<collection[i].id>> = target
        THEN Record(collection[i].id, data.institution, data.facultyCode)
        ELSE collection[i]]

\* mutant: the map of lines 248-254 without its id test
editResolvedReplacesAll ==
    /\ Idle
    /\ saveReq # <<>>
    /\ saveReq[1].kind = "update"
    /\ store' = updated(store, saveReq[1].target, saveReq[1].data)
    /\ institutions' = [i \in 1..Len(institutions) |->
                           Record(institutions[i].id, saveReq[1].data.institution,
                                  saveReq[1].data.facultyCode)]
    /\ showEditModal' = FALSE
    /\ selectedInstitution' = <<>>
    /\ formData' = EmptyForm
    /\ isSaving' = FALSE
    /\ saveReq' = <<>>
    /\ last' = "editResolved"
    /\ UNCHANGED <<isLoading, sortOption, searchTerm, showAddModal, showDeleteModal,
                   isDeleting, formError, nextId, getAllReq, deleteReq,
                   alertOpen, gen, pure, writes, deletedIds>>
    /\ Render

\* lines 240-256 and 263: the store applied the update and the call resolved;
\* selectedInstitution is the one the handler captured when it was clicked
editResolved ==
    /\ Idle
    /\ saveReq # <<>>
    /\ saveReq[1].kind = "update"
    /\ store' = updated(store, saveReq[1].target, saveReq[1].data)
    /\ institutions' = [i \in 1..Len(institutions) |->
                           IF <<institutions[i].id>> = saveReq[1].target
                           THEN Record(institutions[i].id, saveReq[1].data.institution,
                                       saveReq[1].data.facultyCode)
                           ELSE institutions[i]]
    /\ showEditModal' = FALSE
    /\ selectedInstitution' = <<>>
    /\ formData' = EmptyForm
    /\ isSaving' = FALSE
    /\ saveReq' = <<>>
    /\ last' = "editResolved"
    /\ UNCHANGED <<isLoading, sortOption, searchTerm, showAddModal, showDeleteModal,
                   isDeleting, formError, nextId, getAllReq, deleteReq,
                   alertOpen, gen, pure, writes, deletedIds>>
    /\ Render

\* lines 257-263: the update rejected, the collection as it was
editRejected ==
    /\ Idle
    /\ saveReq # <<>>
    /\ saveReq[1].kind = "update"
    /\ formError' = ErrEdit
    /\ isSaving' = FALSE
    /\ saveReq' = <<>>
    /\ last' = "editRejected"
    /\ UNCHANGED <<institutions, isLoading, sortOption, searchTerm, showAddModal,
                   showEditModal, showDeleteModal, selectedInstitution, formData,
                   isDeleting, store, nextId, getAllReq, deleteReq, alertOpen,
                   gen, pure, writes, deletedIds>>
    /\ Render

(***************************************************************************)
(* Delete                                                                  *)
(***************************************************************************)
\* the Eliminar button up to its await (lines 274-279)
handleDeleteInstitution ==
    /\ Idle
    /\ TopModal = "delete"
    /\ ~isDeleting
    /\ writes < MaxWrites
    /\ writes' = writes + 1
    /\ isDeleting' = TRUE
    /\ deleteReq' = <<[id |-> selectedInstitution[1].id]>>
    /\ last' = "event"
    /\ UNCHANGED <<institutions, isLoading, sortOption, searchTerm, showAddModal,
                   showEditModal, showDeleteModal, selectedInstitution, formData,
                   isSaving, formError, store, nextId, getAllReq, saveReq,
                   alertOpen, gen, pure, deletedIds>>
    /\ Render

\* lines 280-291 and 296: the store deleted the document and the call resolved
deleteResolved ==
    /\ Idle
    /\ deleteReq # <<>>
    /\ store' = SelectSeq(store, LAMBDA r : r.id # deleteReq[1].id)
    /\ institutions' = SelectSeq(institutions, LAMBDA inst : inst.id # deleteReq[1].id)
    /\ showDeleteModal' = FALSE
    /\ selectedInstitution' = <<>>
    /\ isDeleting' = FALSE
    /\ deleteReq' = <<>>
    /\ last' = "event"
    /\ deletedIds' = deletedIds \cup {deleteReq[1].id}
    /\ UNCHANGED <<isLoading, sortOption, searchTerm, showAddModal, showEditModal,
                   formData, isSaving, formError, nextId, getAllReq, saveReq,
                   alertOpen, gen, pure, writes>>
    /\ Render

\* mutant: the record is removed from the list although the delete failed
deleteRejectedRemoves ==
    /\ Idle
    /\ deleteReq # <<>>
    /\ institutions' = SelectSeq(institutions, LAMBDA inst : inst.id # deleteReq[1].id)
    /\ alertOpen' = TRUE
    /\ deleteReq' = <<>>
    /\ last' = "deleteRejected"
    /\ UNCHANGED <<isLoading, sortOption, searchTerm, showAddModal,
                   showEditModal, showDeleteModal, selectedInstitution, formData,
                   isSaving, isDeleting, formError, store, nextId, getAllReq,
                   saveReq, gen, pure, writes, deletedIds>>
    /\ Render

\* lines 292-294: the delete rejected and alert() blocks the thread
deleteRejected ==
    /\ Idle
    /\ deleteReq # <<>>
    /\ alertOpen' = TRUE
    /\ deleteReq' = <<>>
    /\ last' = "deleteRejected"
    /\ UNCHANGED <<institutions, isLoading, sortOption, searchTerm, showAddModal,
                   showEditModal, showDeleteModal, selectedInstitution, formData,
                   isSaving, isDeleting, formError, store, nextId, getAllReq,
                   saveReq, gen, pure, writes, deletedIds>>
    /\ Render

\* the alert is dismissed and the finally block runs (line 296)
alertDismissed ==
    /\ alertOpen
    /\ alertOpen' = FALSE
    /\ isDeleting' = FALSE
    /\ last' = "event"
    /\ UNCHANGED <<institutions, isLoading, sortOption, searchTerm, showAddModal,
                   showEditModal, showDeleteModal, selectedInstitution, formData,
                   isSaving, formError, store, nextId, getAllReq, saveReq,
                   deleteReq, gen, pure, writes, deletedIds>>
    /\ Render

(***************************************************************************)
(* The component with its store                                            *)
(***************************************************************************)
Next ==
    \/ \E ok \in BOOLEAN : StoreGetAll(ok)
    \/ \E ok \in BOOLEAN : StoreAdd(ok)
    \/ fetchInstitutionsDone
    \/ \E v \in SearchInputs : setSearchTerm(v)
    \/ \E option \in SortInputs : handleSortChange(option)
    \/ openAddModal
    \/ \E i \in 1..Len(filteredInstitutions) : openEditModal(filteredInstitutions[i])
    \/ \E i \in 1..Len(filteredInstitutions) : openDeleteModal(filteredInstitutions[i])
    \/ closeAddModal
    \/ closeEditModal
    \/ closeDeleteModal
    \/ \E v \in NameInputs : setFormInstitution(v)
    \/ \E v \in CodeInputs : setFormFacultyCode(v)
    \/ generateStart
    \/ generateRetry
    \/ handleGenerateNewCode
    \/ handleAddInstitution
    \/ addResolved
    \/ addRejected
    \/ handleEditInstitution
    \/ editResolved
    \/ editRejected
    \/ handleDeleteInstitution
    \/ deleteResolved
    \/ deleteRejected
    \/ alertDismissed

Spec == Init /\ [][Next]_vars

(***************************************************************************)
(* The component under its scheduling.  The store answers every call it    *)
(* was sent.  The event loop runs a continuation whose response has come   *)
(* whenever the thread is free: a continuation that can run again and      *)
(* again is not passed over for ever by the administrator's events.        *)
(* A synchronous loop whose condition is false returns.  Nothing is        *)
(* assumed of the administrator, who may leave the alert open, nor of the  *)
(* code generator.                                                         *)
(***************************************************************************)
StoreAnswers ==
    \/ \E ok \in BOOLEAN : StoreGetAll(ok)
    \/ \E ok \in BOOLEAN : StoreAdd(ok)

Continuation ==
    \/ fetchInstitutionsDone
    \/ addResolved
    \/ addRejected
    \/ editResolved
    \/ editRejected
    \/ deleteResolved
    \/ deleteRejected

\* a response has come and the thread is free: Continuation can run
ContinuationReady ==
    /\ Idle
    /\ \/ getAllReq.status \in {"ok", "failed"}
       \/ saveReq # <<>> /\ saveReq[1].kind = "add" /\ saveReq[1].status # "sent"
       \/ saveReq # <<>> /\ saveReq[1].kind = "update"
       \/ deleteReq # <<>>

\* the step consumed a response: Continuation has run
ContinuationRuns ==
    \/ getAllReq.status # "done" /\ getAllReq'.status = "done"
    \/ saveReq # <<>> /\ saveReq' = <<>>
    \/ deleteReq # <<>> /\ deleteReq' = <<>>

\* ContinuationRuns holds of Continuation's steps and of no other, and
\* ContinuationReady is the disjunction of the guards of Continuation's
\* disjuncts, the rest of each being assignments
ContinuationRunsIsStep == [][ContinuationRuns <=> Continuation]_vars

ContinuationStepsWhenReady == [][Continuation => ContinuationReady]_vars

\* SF_vars(Continuation), written with the two predicates above
ContinuationFair == ([]<>ContinuationReady) => []<><<ContinuationRuns>>_vars

\* handleGenerateNewCode's loop, lines 147-149
InLoop == gen # <<>>

LoopCanReturn == InLoop /\ isCodeUnique(gen[1], <<>>)

LoopMustRetry == InLoop /\ ~isCodeUnique(gen[1], <<>>)

\* the thread does not stop inside the loop once its condition is false:
\* WF_vars(handleGenerateNewCode), whose step ends what enables it
ThreadRunsLoop == []<>~LoopCanReturn

SpecLive ==
    Init /\ [][Next]_vars /\ WF_vars(StoreAnswers) /\ ContinuationFair /\ ThreadRunsLoop

(***************************************************************************)
(* The component with a fair code generator: a loop that keeps retrying    *)
(* is handed every code of the generator's range again and again.          *)
(***************************************************************************)
GeneratorFair ==
    \A code \in GenCodes : ([]<>LoopMustRetry) => []<>(gen = <<code>>)

SpecGenerator == Init /\ [][Next]_vars /\ ThreadRunsLoop /\ GeneratorFair

(***************************************************************************)
(* filterInstitutions and sortInstitutions applied to arbitrary lists       *)
(***************************************************************************)
\* documents as the store may return them: a field may be missing or empty
PureRecords ==
    { Record(1, Str2("a", "B"), Str1("c")),
      Record(2, Str1("b"), Missing),
      Record(3, Missing, Str2("A", "b")),
      Record(4, <<>>, Str2("B", "a")),
      Record(5, Str2(" ", "b"), Str1("a")) }

PureLists == UNION { [1..n -> PureRecords] : n \in 0..MaxLen }

PureTerms == { <<>>, Str1(" "), Str1("b"), Str2("A", "B"), Str2(" ", "b"), Str2("B", "a") }

InitPure ==
    /\ InitComponent
    /\ \E list \in PureLists :
           pure = [phase |-> "input", list |-> list, orig |-> list, term |-> <<>>,
                   option |-> "alphabetical", out |-> <<>>]

applyFilter(search) ==
    /\ pure.phase = "input"
    /\ pure' = [pure EXCEPT !.phase = "filtered", !.term = search,
                            !.out = filterInstitutions(pure.list, search)]
    /\ UNCHANGED <<institutions, filteredInstitutions, isLoading, sortOption,
                   searchTerm, showAddModal, showEditModal, showDeleteModal,
                   selectedInstitution, formData, isSaving, isDeleting, formError,
                   store, nextId, writes, getAllReq, saveReq, deleteReq, alertOpen,
                   gen, last, deletedIds>>

\* const sorted = [...institutionsList]: the argument itself is left alone
applySort(option) ==
    /\ pure.phase = "input"
    /\ pure' = [pure EXCEPT !.phase = "sorted", !.option = option,
                            !.out = sortInstitutions(pure.list, option)]
    /\ UNCHANGED <<institutions, filteredInstitutions, isLoading, sortOption,
                   searchTerm, showAddModal, showEditModal, showDeleteModal,
                   selectedInstitution, formData, isSaving, isDeleting, formError,
                   store, nextId, writes, getAllReq, saveReq, deleteReq, alertOpen,
                   gen, last, deletedIds>>

NextPure ==
    \/ \E search \in PureTerms : applyFilter(search)
    \/ \E option \in SortOptions : applySort(option)

SpecPure == InitPure /\ [][NextPure]_vars

(***************************************************************************)
(* C6  filterInstitutions returns exactly the records whose name or code   *)
(* contains the term, letters compared without regard to case, in their    *)
(* original order; a blank term returns the list unchanged.                *)
(***************************************************************************)
SameLetter(x, y) == x = y \/ toUpperCaseChar(x) = y \/ x = toUpperCaseChar(y)

ContainsIgnoringCase(field, term) ==
    /\ field # Missing
    /\ \E k \in 0..(Len(field) - Len(term)) :
           \A j \in 1..Len(term) : SameLetter(field[k + j], term[j])

BlankTerm(term) == \A j \in 1..Len(term) : term[j] = " "

MatchesTerm(r, term) ==
    ContainsIgnoringCase(r.institution, term) \/ ContainsIgnoringCase(r.facultyCode, term)

FilterIsExactSubset ==
    pure.phase = "filtered" =>
        IF BlankTerm(pure.term)
        THEN pure.out = pure.orig
        ELSE pure.out = SelectSeq(pure.orig, LAMBDA r : MatchesTerm(r, pure.term))

\* a term that keeps some records and drops others, one of them kept only
\* because case is ignored
FilterWitness ==
    /\ pure.phase = "filtered"
    /\ ~BlankTerm(pure.term)
    /\ 0 < Len(pure.out)
    /\ Len(pure.out) < Len(pure.orig)
    /\ \E i \in 1..Len(pure.out) :
           /\ ~includes(orEmpty(pure.out[i].institution), pure.term)
           /\ ~includes(orEmpty(pure.out[i].facultyCode), pure.term)

(***************************************************************************)
(* C7  sortInstitutions returns a permutation of its input, leaves the     *)
(* input as it was, and orders every adjacent pair by localeCompare on the *)
(* chosen field in the chosen direction, a missing field counting as "".   *)
(***************************************************************************)
Occurrences(list, r) == Cardinality({ i \in 1..Len(list) : list[i] = r })

IsPermutation(a, b) ==
    /\ Len(a) = Len(b)
    /\ \A r \in PureRecords : Occurrences(a, r) = Occurrences(b, r)

SortKey(r, option) ==
    orEmpty(IF option \in {"alphabetical", "reverse-alphabetical"}
            THEN r.institution ELSE r.facultyCode)

InOrder(a, b, option) ==
    IF option \in {"alphabetical", "code-asc"}
    THEN localeCompare(SortKey(a, option), SortKey(b, option)) <= 0
    ELSE localeCompare(SortKey(a, option), SortKey(b, option)) >= 0

SortIsOrderedPermutation ==
    pure.phase = "sorted" =>
        /\ pure.list = pure.orig
        /\ IsPermutation(pure.out, pure.orig)
        /\ \A i \in 1..(Len(pure.out) - 1) :
               InOrder(pure.out[i], pure.out[i + 1], pure.option)

\* a descending sort by code that moved records, one of them without a code
SortWitness ==
    /\ pure.phase = "sorted"
    /\ pure.option = "code-desc"
    /\ pure.out # pure.orig
    /\ Len(pure.out) = MaxLen
    /\ \E i \in 1..Len(pure.out) : pure.out[i].facultyCode = Missing

(***************************************************************************)
(* Vocabulary of the claims about the component                            *)
(***************************************************************************)
Ids(list) == { list[i].id : i \in 1..Len(list) }

Codes(list) == { list[i].facultyCode : i \in 1..Len(list) }

NoSharedCode(list) ==
    \A i, j \in 1..Len(list) : i # j => list[i].facultyCode # list[j].facultyCode

BlankString(str) == \A k \in 1..Len(str) : str[k] = " "

\* an id the store assigned to an add of this component
AssignedByAdd(id) == id > Len(SeedRecords)

(***************************************************************************)
(* C1  After an add or an edit has completed successfully, no two records  *)
(* of institutions share a facultyCode.                                    *)
(***************************************************************************)
CodesUniqueAfterSave ==
    last \in {"addResolved", "editResolved"} => NoSharedCode(institutions)

(***************************************************************************)
(* C5  Once the delete of a record has resolved, no record with its id is  *)
(* in institutions or in filteredInstitutions, in any later state.         *)
(***************************************************************************)
DeletedStaysAbsent ==
    \A id \in deletedIds :
        id \notin Ids(institutions) /\ id \notin Ids(filteredInstitutions)

(***************************************************************************)
(* C9  At most one store call of the component awaits its response.        *)
(***************************************************************************)
GetAllAwaiting == getAllReq.status # "done"

CallsAwaiting ==
    (IF GetAllAwaiting THEN 1 ELSE 0) + Len(saveReq) + Len(deleteReq)

AtMostOneCallAwaiting == CallsAwaiting <= 1

(***************************************************************************)
(* C2  An add attempted while the form's code is the code of a record of   *)
(* the local list is rejected with the duplicate-code error and issues no  *)
(* add call.  The handler leaves formData and institutions as they were,   *)
(* so the state after it still shows what it was invoked with.             *)
(***************************************************************************)
AddOfListedCode ==
    /\ last = "handleAddInstitution"
    /\ formData.facultyCode \in Codes(institutions)

NoSaveIssued == ~isSaving /\ saveReq = <<>>

\* as claimed: the error is always the duplicate-code one
DuplicateAddGetsDuplicateError ==
    AddOfListedCode => formError = ErrDup /\ NoSaveIssued

\* as amended: the name and the length of the code are checked first
DuplicateAddRejected ==
    AddOfListedCode =>
        /\ NoSaveIssued
        /\ formError = IF BlankString(formData.institution) THEN ErrName
                       ELSE IF Len(formData.facultyCode) # CodeLength
                               \/ BlankString(formData.facultyCode) THEN ErrCode
                       ELSE ErrDup

DuplicateAddWitness ==
    /\ AddOfListedCode
    /\ ~BlankString(formData.institution)
    /\ formError = ErrDup
    /\ showAddModal

(***************************************************************************)
(* C3  A validation failure of add or edit sets a non-empty formError,     *)
(* issues no remote write and leaves institutions, isSaving and the modal  *)
(* flags unchanged.                                                        *)
(***************************************************************************)
\* the form would not pass: blank name, blank code, wrong length, or a code
\* that another record of the list has
InvalidForm(excludeId) ==
    \/ BlankString(formData.institution)
    \/ BlankString(formData.facultyCode)
    \/ Len(formData.facultyCode) # CodeLength
    \/ \E i \in 1..Len(institutions) :
           /\ institutions[i].facultyCode = formData.facultyCode
           /\ <<institutions[i].id>> # excludeId

InvalidSubmit ==
    \/ handleAddInstitution /\ InvalidForm(<<>>)
    \/ handleEditInstitution /\ InvalidForm(<<selectedInstitution[1].id>>)

ValidationFailureChangesOnlyError ==
    [][InvalidSubmit =>
          /\ formError' # ""
          /\ UNCHANGED <<institutions, isSaving, showAddModal, showEditModal,
                         showDeleteModal, saveReq, deleteReq, store, writes>>]_vars

\* an edit refused because another record has the code
ValidationFailureWitness ==
    /\ last = "handleEditInstitution"
    /\ formError = ErrDup
    /\ showEditModal
    /\ saveReq = <<>>

(***************************************************************************)
(* C4  A successful add sends {trim(name), uppercase(code)} once, the list *)
(* then holds that record under the id the store returned, and the record  *)
(* stays in the list until it is deleted.                                  *)
(***************************************************************************)
AddSendsNormalisedRecord ==
    (handleAddInstitution /\ saveReq' # <<>>) =>
        /\ saveReq'[1].kind = "add"
        /\ saveReq'[1].data.institution = trim(formData.institution)
        /\ saveReq'[1].data.facultyCode = toUpperCase(formData.facultyCode)
        /\ writes' = writes + 1

AddedRecordListed ==
    addResolved =>
        Record(saveReq[1].target[1], saveReq[1].data.institution,
               saveReq[1].data.facultyCode) \in
            { institutions'[i] : i \in 1..Len(institutions') }

AddedRecordKept ==
    \A id \in Ids(institutions) :
        (AssignedByAdd(id) /\ ~(deleteResolved /\ deleteReq[1].id = id))
            => id \in Ids(institutions')

AddedRecordStaysUntilDeleted ==
    [][AddSendsNormalisedRecord /\ AddedRecordListed /\ AddedRecordKept]_vars

(***************************************************************************)
(* C8  When handleGenerateNewCode returns, the code it put in the form is  *)
(* the code of no record of institutions.                                  *)
(***************************************************************************)
GeneratedCodeUnused ==
    last = "handleGenerateNewCode" => formData.facultyCode \notin Codes(institutions)

GeneratedCodeWitness ==
    /\ last = "handleGenerateNewCode"
    /\ Len(institutions) > 0
    /\ Codes(institutions) \cap GenCodes # {}

(***************************************************************************)
(* C10  A remote write that fails leaves institutions as it was, reports   *)
(* the failure (formError for add and edit, a blocking alert for delete),  *)
(* does not close the modal, and is neither retried nor compensated.       *)
(***************************************************************************)
SaveFailed(name) == saveReq # <<>> /\ saveReq' = <<>> /\ last' = name

DeleteFailed == deleteReq # <<>> /\ deleteReq' = <<>> /\ last' = "deleteRejected"

NoFurtherWrite == writes' = writes /\ store' = store /\ nextId' = nextId

ModalsAsTheyWere == UNCHANGED <<showAddModal, showEditModal, showDeleteModal>>

FailedWriteLeavesList ==
    [][/\ SaveFailed("addRejected") =>
             /\ institutions' = institutions
             /\ formError' = ErrAdd
             /\ ModalsAsTheyWere
             /\ deleteReq' = deleteReq
             /\ NoFurtherWrite
       /\ SaveFailed("editRejected") =>
             /\ institutions' = institutions
             /\ formError' = ErrEdit
             /\ ModalsAsTheyWere
             /\ deleteReq' = deleteReq
             /\ NoFurtherWrite
       /\ DeleteFailed =>
             /\ institutions' = institutions
             /\ alertOpen'
             /\ ModalsAsTheyWere
             /\ saveReq' = saveReq
             /\ NoFurtherWrite]_vars

\* a delete failed: the alert is showing over the modal, the record is listed
FailedWriteWitness ==
    /\ last = "deleteRejected"
    /\ alertOpen
    /\ showDeleteModal
    /\ selectedInstitution # <<>>
    /\ selectedInstitution[1].id \in Ids(institutions)


(***************************************************************************)
(* C11  getAll is issued once, at mount, and by no later step; a failed    *)
(* fetch empties institutions, is not retried and leaves formError alone;  *)
(* once the fetch has completed, whatever its outcome, isLoading is false. *)
(***************************************************************************)
GetAllIssued == getAllReq'.status = "sent" /\ getAllReq.status # "sent"

FetchCompletes(outcome) == getAllReq.status = outcome /\ getAllReq'.status = "done"

FetchCompleted == getAllReq.status = "done"

FetchedOnceAtMount ==
    /\ [][~GetAllIssued]_vars
    /\ [][FetchCompletes("failed") =>
             /\ institutions' = <<>>
             /\ formError' = formError
             /\ isLoading' = FALSE]_vars
    /\ [][FetchCompletes("ok") =>
             /\ institutions' = getAllReq.data
             /\ isLoading' = FALSE]_vars
    /\ [](FetchCompleted => ~isLoading)

\* the fetch has failed and completed: the collection holds a document, no
\* write was ever issued, and yet the list is empty
FetchFailedWitness ==
    /\ FetchCompleted
    /\ ~isLoading
    /\ store # <<>>
    /\ writes = 0
    /\ institutions = <<>>
    /\ formError = ""


(***************************************************************************)
(* C12  A successful edit replaces the institution and the facultyCode of  *)
(* the records whose id is the id of the record selected when the edit was *)
(* submitted, by the trimmed name and the uppercased code of the form;     *)
(* every id, every other record, and the number and order of records stay  *)
(* as they were.  Ids are created by the store's add alone: every id of    *)
(* the list was assigned by the store, and an id enters the list only with *)
(* the fetched snapshot or with the id an add returned.                    *)
(***************************************************************************)
EditSubmitted == handleEditInstitution /\ saveReq' # <<>>

EditSendsSelectedId ==
    EditSubmitted =>
        /\ saveReq'[1].kind = "update"
        /\ saveReq'[1].target = <<selectedInstitution[1].id>>
        /\ saveReq'[1].data.institution = trim(formData.institution)
        /\ saveReq'[1].data.facultyCode = toUpperCase(formData.facultyCode)

EditReplacesSelectedOnly ==
    editResolved =>
        /\ Len(institutions') = Len(institutions)
        /\ \A i \in 1..Len(institutions) :
               /\ institutions'[i].id = institutions[i].id
               /\ IF <<institutions[i].id>> = saveReq[1].target
                  THEN /\ institutions'[i].institution = saveReq[1].data.institution
                       /\ institutions'[i].facultyCode = saveReq[1].data.facultyCode
                  ELSE institutions'[i] = institutions[i]

StoreAssigned(id) == id \in 1..(Len(SeedRecords) + nextId - 1)

IdEntersList == Ids(institutions') \ Ids(institutions) # {}

IdEntersStore == Ids(store') \ Ids(store) # {}

OnlyAddCreatesIds ==
    /\ IdEntersStore =>
           /\ saveReq # <<>>
           /\ saveReq[1].kind = "add"
           /\ Ids(store') \ Ids(store) = {Len(SeedRecords) + nextId}
           /\ nextId' = nextId + 1
    /\ IdEntersList =>
           \/ fetchInstitutionsDone /\ Ids(institutions') = Ids(getAllReq.data)
           \/ addResolved /\ Ids(institutions') \ Ids(institutions) = {saveReq[1].target[1]}

IdsImmutable ==
    /\ [][EditSendsSelectedId /\ EditReplacesSelectedOnly /\ OnlyAddCreatesIds]_vars
    /\ [](\A id \in Ids(institutions) \cup Ids(store) : StoreAssigned(id))

\* an edit of the seed record has resolved beside a record the component added
EditResolvedWitness ==
    /\ last = "editResolved"
    /\ Len(institutions) = 2
    /\ institutions[1] = Record(1, Str1("a"), Rep6("A"))
    /\ institutions[2].id = 2
    /\ institutions[2].facultyCode = Rep6("C")


(***************************************************************************)
(* C13  isSaving is true exactly while an add or an update awaits its      *)
(* response, isDeleting exactly while a delete awaits its response, and a  *)
(* flag that is true eventually returns to false.                          *)
(***************************************************************************)
SaveAwaiting == saveReq # <<>>

DeleteAwaiting == deleteReq # <<>>

\* as claimed
BusyFlagsTrackWrites ==
    /\ [](isSaving <=> SaveAwaiting)
    /\ [](isDeleting <=> DeleteAwaiting)
    /\ isSaving ~> ~isSaving
    /\ isDeleting ~> ~isDeleting

\* as amended: after a failed delete isDeleting stays true while the alert
\* is showing, and the flags return to false if the thread is free again and
\* again, that is if the alert is dismissed and handleGenerateNewCode returns
BusyFlagsTrackHandlers ==
    /\ [](isSaving <=> SaveAwaiting)
    /\ [](isDeleting <=> (DeleteAwaiting \/ alertOpen))
    /\ ([]<>Idle) => ((isSaving ~> ~isSaving) /\ (isDeleting ~> ~isDeleting))

\* a delete has failed and its alert is showing while a save awaits its response
BusyFlagsWitness ==
    /\ alertOpen
    /\ isDeleting
    /\ ~DeleteAwaiting
    /\ isSaving
    /\ SaveAwaiting


(***************************************************************************)
(* C14  With a fair generator, handleGenerateNewCode returns whenever some *)
(* code of the generator's range is the code of no record of the list; it  *)
(* keeps drawing while the code drawn is used, and returns with the first  *)
(* code drawn that is not.                                                 *)
(***************************************************************************)
UnusedCodes == GenCodes \ Codes(institutions)

DrawnCodeUsed == InLoop /\ gen[1] \in Codes(institutions)

DrawnCodeUnused == InLoop /\ gen[1] \notin Codes(institutions)

GenerateTerminates ==
    /\ (InLoop /\ UnusedCodes # {}) ~> ~InLoop
    /\ [][DrawnCodeUsed => InLoop']_vars
    /\ [][(DrawnCodeUnused /\ gen' # gen) =>
             /\ ~InLoop'
             /\ formData' = [formData EXCEPT !.facultyCode = gen[1]]]_vars

\* the loop has drawn a used code while another code of the range is unused
GenerateRetryWitness ==
    /\ DrawnCodeUsed
    /\ UnusedCodes # {}
    /\ showAddModal


(***************************************************************************)
(* C15  While showEditModal or showDeleteModal is true a record is         *)
(* selected, and the completion of a write leaves alone the selection and  *)
(* the form of a modal that was opened for another operation.              *)
(***************************************************************************)
ModalHasSelection ==
    (showEditModal \/ showDeleteModal) => selectedInstitution # <<>>

\* the modal of another operation than the add / the update / the delete that
\* completes is open
OtherThanAddOpen == showEditModal \/ showDeleteModal

OtherThanEditOpen == showAddModal \/ showDeleteModal

OtherThanDeleteOpen == showAddModal \/ showEditModal

CompletionKeepsOtherModal ==
    /\ (addResolved /\ OtherThanAddOpen) => UNCHANGED <<selectedInstitution, formData>>
    /\ (editResolved /\ OtherThanEditOpen) => UNCHANGED <<selectedInstitution, formData>>
    /\ (deleteResolved /\ OtherThanDeleteOpen) => UNCHANGED <<selectedInstitution, formData>>

SelectionOutlivesCompletions ==
    /\ []ModalHasSelection
    /\ [][CompletionKeepsOtherModal]_vars

====
